---- MODULE Spec2Model ----
(***************************************************************************)
(* Model of the Todos component of src/src/todo.rs: the create dispatcher  *)
(* (ServerMultiAction<AddTodo>), the delete dispatcher                     *)
(* (ServerAction<DeleteTodo>), the todos Resource keyed by their version   *)
(* counters, the pending-submission overlay, and the three server          *)
(* functions get_todos / add_todo / delete_todo working on the todos table.*)
(*                                                                         *)
(* A server function call is three steps: the client dispatches (request   *)
(* in flight), the server runs the function body on the table (reply in    *)
(* flight), the client task resumes with the reply (settlement).           *)
(*                                                                         *)
(* Framework behaviour relied upon (leptos 0.7 reactive primitives named   *)
(* at todo.rs:119-133):                                                    *)
(*  - MultiAction::dispatch pushes a Submission {input: Some, value: None, *)
(*    pending: true}; when its future resolves it sets value, clears       *)
(*    input, sets pending to false and adds 1 to version.                  *)
(*  - Action::dispatch adds 1 to in_flight, remembers the version read at  *)
(*    dispatch and sets input; when its future resolves it subtracts 1     *)
(*    from in_flight and, only if version is still <= the remembered one,  *)
(*    adds 1 to version and stores the value; input is cleared when        *)
(*    in_flight reaches 0.                                                 *)
(*  - Resource::new memoizes the source tuple and runs one task that       *)
(*    awaits the fetcher's future to completion before it looks at the     *)
(*    source again: fetches of one resource never overlap, and changes of  *)
(*    the source during a fetch lead to one new fetch after it.            *)
(***************************************************************************)
EXTENDS Integers, Sequences, FiniteSets, TLC

\* ---------------------------------------------------------------- bounds
\* mutations dispatched in one behaviour, creates among them, and server
\* calls that fail in it
MaxOps == 3
MaxAdds == 2
MaxFail == 1
Titles == {"a", "b"}

NoTitle == "None"
NoId == 0

VARIABLES
    store,        \* rows of table todos, in rowid order
    nextId,       \* next identifier the table assigns
    submissions,  \* add_todo.submissions(): one Submission per create dispatch
    addFut,       \* the future of each create dispatch (request/reply in flight)
    verAdd,       \* add_todo.version()
    delFut,       \* the future of each delete dispatch
    delInFlight,  \* delete_todo.in_flight
    delInput,     \* delete_todo.input()
    delValue,     \* delete_todo.value()
    verDel,       \* delete_todo.version()
    todos,        \* value held by the todos Resource
    fetchPhase,   \* "idle", "sent" (request in flight), "replied" (reply in flight)
    fetchResult,  \* reply of the outstanding get_todos call
    fetchedKey,   \* source tuple the last fetch was issued for
    fetchCount,   \* number of get_todos calls issued so far
    scen,         \* what was true when the latest mutation was dispatched
    fails,        \* number of server calls that have failed so far
    value,        \* HomePage: the counter signal
    hiddenClick   \* HomePage: "-" has been clicked while it was invisible

vars == <<store, nextId, submissions, addFut, verAdd, delFut, delInFlight,
          delInput, delValue, verDel, todos, fetchPhase, fetchResult,
          fetchedKey, fetchCount, scen, fails, value, hiddenClick>>

\* the state of the HomePage component (src/src/app.rs)
home == <<value, hiddenClick>>

\* ---------------------------------------------------------------- helpers
Ids(list) == {list[k].id : k \in 1..Len(list)}

Todo(id, title) == [id |-> id, title |-> title, completed |-> FALSE]

\* INSERT INTO todos (title, completed) VALUES ($1, false)
InsertRowFirst(tbl, id, title) == <<Todo(id, title)>>
InsertRow(tbl, id, title) == Append(tbl, Todo(id, title))

\* DELETE FROM todos WHERE id = $1
DeleteRowsKeepAll(tbl, id) == tbl
DeleteRows(tbl, id) == SelectSeq(tbl, LAMBDA r : r.id # id)

\* identifier the table assigns to an inserted row
AssignId(n) == n

\* the source closure of the Resource
KeyOf(vd, va) == <<vd, va, vd>>
Key == KeyOf(verDel, verAdd)

NoValue == [kind |-> "none", list |-> <<>>]
OkValue(list) == [kind |-> "ok", list |-> list]
ErrValue == [kind |-> "err", list |-> <<>>]

\* The Resource's task after the source may have changed: when no fetch is
\* outstanding and the memoized key differs, one get_todos call is issued.
ReactNever(phase, fkey, key, cnt) ==
    [phase |-> phase, fkey |-> fkey, cnt |-> cnt]
React(phase, fkey, key, cnt) ==
    IF phase = "idle" /\ key # fkey
    THEN [phase |-> "sent", fkey |-> key, cnt |-> cnt + 1]
    ELSE [phase |-> phase, fkey |-> fkey, cnt |-> cnt]

AddInFlight == {i \in 1..Len(addFut) : addFut[i].phase # "settled"}
DelInFlight == {j \in 1..Len(delFut) : delFut[j].phase # "settled"}
AddSettled == Cardinality({i \in 1..Len(addFut) : addFut[i].phase = "settled"})
DelSettled == Cardinality({j \in 1..Len(delFut) : delFut[j].phase = "settled"})

Quiescent == AddInFlight = {} /\ DelInFlight = {} /\ fetchPhase = "idle"

\* ---------------------------------------------------------------- view
\* the closure over submissions inside <ul>: one <li class="pending"> per
\* submission whose pending signal is true, showing its input's title
OverlayAll ==
    [i \in 1..Len(submissions) |-> [sub |-> i, title |-> submissions[i].input]]
Overlay ==
    SelectSeq([i \in 1..Len(submissions) |->
                  [sub |-> i, title |-> submissions[i].input]],
              LAMBDA p : submissions[p.sub].pending)

\* existing_todos under Transition and ErrorBoundary
ExistingTodos ==
    CASE todos.kind = "none" -> [shown |-> "loading", rows |-> <<>>]
      [] todos.kind = "err"  -> [shown |-> "error", rows |-> <<>>]
      [] todos.kind = "ok" /\ todos.list = <<>> -> [shown |-> "empty", rows |-> <<>>]
      [] OTHER -> [shown |-> "list", rows |-> todos.list]

\* ---------------------------------------------------------------- init
Init ==
    /\ store = <<>>
    /\ nextId = 1
    /\ submissions = <<>>
    /\ addFut = <<>>
    /\ verAdd = 0
    /\ delFut = <<>>
    /\ delInFlight = 0
    /\ delInput = NoId
    /\ delValue = "none"
    /\ verDel = 0
    /\ todos = NoValue
    /\ fetchPhase = "sent"
    /\ fetchResult = NoValue
    /\ fetchedKey = KeyOf(0, 0)
    /\ fetchCount = 1
    /\ scen = [kind |-> "none", snap |-> <<>>, arg |-> NoTitle, cnt |-> 1]
    /\ fails = 0
    /\ value = 0
    /\ hiddenClick = FALSE

\* ---------------------------------------------------------------- scenario bookkeeping
CleanStart == Quiescent /\ todos.kind = "ok" /\ todos.list = store

ScenAdd(t) ==
    IF CleanStart /\ store = <<>>
    THEN [kind |-> "add", snap |-> <<>>, arg |-> t, cnt |-> fetchCount]
    ELSE IF CleanStart
    THEN [kind |-> "addrows", snap |-> store, arg |-> t, cnt |-> fetchCount]
    ELSE [kind |-> "other", snap |-> <<>>, arg |-> NoTitle, cnt |-> fetchCount]

ScenDel(id) ==
    IF CleanStart /\ Len(store) = 2 /\ store[1].id = 1 /\ store[2].id = 2 /\ id = 1
    THEN [kind |-> "del", snap |-> todos.list, arg |-> NoTitle, cnt |-> fetchCount]
    ELSE [kind |-> "other", snap |-> <<>>, arg |-> NoTitle, cnt |-> fetchCount]

\* ---------------------------------------------------------------- create dispatcher
\* MultiAction::dispatch
DispatchAdd(t) ==
    /\ Len(submissions) < MaxAdds
    /\ Len(submissions) + Len(delFut) < MaxOps
    /\ submissions' = Append(submissions,
                             [input |-> t, pending |-> TRUE, value |-> "none"])
    /\ addFut' = Append(addFut, [title |-> t, phase |-> "sent", result |-> "none",
                                 dver |-> verAdd, rid |-> NoId])
    /\ scen' = ScenAdd(t)
    /\ UNCHANGED <<store, nextId, verAdd, delFut, delInFlight, delInput, delValue,
                   verDel, todos, fetchPhase, fetchResult, fetchedKey, fetchCount,
                   fails>>
    /\ UNCHANGED home

\* add_todo on the server
ServerAdd(i, ok) ==
    /\ i \in 1..Len(addFut)
    /\ addFut[i].phase = "sent"
    /\ ok \/ fails < MaxFail
    /\ fails' = IF ok THEN fails ELSE fails + 1
    /\ IF ok
       THEN /\ store' = InsertRow(store, AssignId(nextId), addFut[i].title)
            /\ nextId' = nextId + 1
            /\ addFut' = [addFut EXCEPT ![i].phase = "replied", ![i].result = "ok",
                                        ![i].rid = AssignId(nextId)]
       ELSE /\ addFut' = [addFut EXCEPT ![i].phase = "replied", ![i].result = "err"]
            /\ UNCHANGED <<store, nextId>>
    /\ UNCHANGED <<submissions, verAdd, delFut, delInFlight, delInput, delValue,
                   verDel, todos, fetchPhase, fetchResult, fetchedKey, fetchCount,
                   scen>>
    /\ UNCHANGED home

\* the task spawned by MultiAction::dispatch, after fut.await
SettledDropErr(s, result) ==
    [s EXCEPT !.value = "ok", !.input = NoTitle, !.pending = FALSE]
SettledKeepPending(s, result) == [s EXCEPT !.value = result, !.input = NoTitle]
Settled(s, result) ==
    [s EXCEPT !.value = result, !.input = NoTitle, !.pending = FALSE]

BumpNot(v) == v
Bump(v) == v + 1

SettleAdd(i) ==
    /\ i \in 1..Len(addFut)
    /\ addFut[i].phase = "replied"
    /\ submissions' = [submissions EXCEPT ![i] = Settled(@, addFut[i].result)]
    /\ addFut' = [addFut EXCEPT ![i].phase = "settled"]
    /\ verAdd' = Bump(verAdd)
    /\ LET r == React(fetchPhase, fetchedKey, KeyOf(verDel, verAdd'), fetchCount)
       IN  /\ fetchPhase' = r.phase
           /\ fetchedKey' = r.fkey
           /\ fetchCount' = r.cnt
    /\ UNCHANGED <<store, nextId, delFut, delInFlight, delInput, delValue, verDel,
                   todos, fetchResult, scen, fails>>
    /\ UNCHANGED home

\* ---------------------------------------------------------------- delete dispatcher
\* a dispatch that also removes the row from the Resource's value
DispatchDelOptimistic(id) ==
    /\ Len(submissions) + Len(delFut) < MaxOps
    /\ ExistingTodos.shown = "list"
    /\ id \in Ids(ExistingTodos.rows)
    /\ delInFlight' = delInFlight + 1
    /\ delInput' = id
    /\ delFut' = Append(delFut, [id |-> id, cur |-> verDel, phase |-> "sent",
                                 result |-> "none"])
    /\ scen' = ScenDel(id)
    /\ todos' = OkValue(DeleteRows(todos.list, id))
    /\ UNCHANGED <<store, nextId, submissions, addFut, verAdd, delValue, verDel,
                   fetchPhase, fetchResult, fetchedKey, fetchCount, fails>>
    /\ UNCHANGED home

\* Action::dispatch, from the ActionForm of a row rendered by existing_todos
DispatchDel(id) ==
    /\ Len(submissions) + Len(delFut) < MaxOps
    /\ ExistingTodos.shown = "list"
    /\ id \in Ids(ExistingTodos.rows)
    /\ delInFlight' = delInFlight + 1
    /\ delInput' = id
    /\ delFut' = Append(delFut, [id |-> id, cur |-> verDel, phase |-> "sent",
                                 result |-> "none"])
    /\ scen' = ScenDel(id)
    /\ UNCHANGED <<store, nextId, submissions, addFut, verAdd, delValue, verDel,
                   todos, fetchPhase, fetchResult, fetchedKey, fetchCount, fails>>
    /\ UNCHANGED home

\* a delete_todo that reports an error when no row has the identifier
ServerDelChecked(j, ok) ==
    /\ j \in 1..Len(delFut)
    /\ delFut[j].phase = "sent"
    /\ ok \/ fails < MaxFail
    /\ fails' = IF ok THEN fails ELSE fails + 1
    /\ IF ok /\ delFut[j].id \in Ids(store)
       THEN /\ store' = DeleteRows(store, delFut[j].id)
            /\ delFut' = [delFut EXCEPT ![j].phase = "replied", ![j].result = "ok"]
       ELSE /\ store' = store
            /\ delFut' = [delFut EXCEPT ![j].phase = "replied", ![j].result = "err"]
    /\ UNCHANGED <<nextId, submissions, addFut, verAdd, delInFlight, delInput,
                   delValue, verDel, todos, fetchPhase, fetchResult, fetchedKey,
                   fetchCount, scen>>
    /\ UNCHANGED home

\* delete_todo on the server
ServerDel(j, ok) ==
    /\ j \in 1..Len(delFut)
    /\ delFut[j].phase = "sent"
    /\ ok \/ fails < MaxFail
    /\ fails' = IF ok THEN fails ELSE fails + 1
    /\ IF ok
       THEN /\ store' = DeleteRows(store, delFut[j].id)
            /\ delFut' = [delFut EXCEPT ![j].phase = "replied", ![j].result = "ok"]
       ELSE /\ store' = store
            /\ delFut' = [delFut EXCEPT ![j].phase = "replied", ![j].result = "err"]
    /\ UNCHANGED <<nextId, submissions, addFut, verAdd, delInFlight, delInput,
                   delValue, verDel, todos, fetchPhase, fetchResult, fetchedKey,
                   fetchCount, scen>>
    /\ UNCHANGED home

\* is_latest in the task spawned by Action::dispatch
IsLatest(v, cur) == v <= cur

SettleDel(j) ==
    /\ j \in 1..Len(delFut)
    /\ delFut[j].phase = "replied"
    /\ delFut' = [delFut EXCEPT ![j].phase = "settled"]
    /\ delInFlight' = IF delInFlight > 0 THEN delInFlight - 1 ELSE 0
    /\ IF IsLatest(verDel, delFut[j].cur)
       THEN /\ verDel' = verDel + 1
            /\ delValue' = delFut[j].result
       ELSE UNCHANGED <<verDel, delValue>>
    /\ delInput' = IF delInFlight' = 0 THEN NoId ELSE delInput
    /\ LET r == React(fetchPhase, fetchedKey, KeyOf(verDel', verAdd), fetchCount)
       IN  /\ fetchPhase' = r.phase
           /\ fetchedKey' = r.fkey
           /\ fetchCount' = r.cnt
    /\ UNCHANGED <<store, nextId, submissions, addFut, verAdd, todos, fetchResult,
                   scen, fails>>
    /\ UNCHANGED home

\* ---------------------------------------------------------------- resource
\* get_todos on the server
ServerList(ok) ==
    /\ fetchPhase = "sent"
    /\ ok \/ fails < MaxFail
    /\ fails' = IF ok THEN fails ELSE fails + 1
    /\ fetchPhase' = "replied"
    /\ fetchResult' = IF ok THEN OkValue(store) ELSE ErrValue
    /\ UNCHANGED <<store, nextId, submissions, addFut, verAdd, delFut, delInFlight,
                   delInput, delValue, verDel, todos, fetchedKey, fetchCount, scen>>
    /\ UNCHANGED home

\* value the Resource holds once a get_todos reply has arrived
LoadedMerge(old, reply) ==
    IF old.kind = "ok" /\ reply.kind = "ok"
    THEN OkValue(old.list \o reply.list)
    ELSE reply
LoadedKeepOnErr(old, reply) == IF reply.kind = "err" THEN old ELSE reply
Loaded(old, reply) == reply

\* the Resource's task resumes with the reply, stores it, looks at the source
FetchComplete ==
    /\ fetchPhase = "replied"
    /\ todos' = Loaded(todos, fetchResult)
    /\ fetchResult' = NoValue
    /\ LET r == React("idle", fetchedKey, Key, fetchCount)
       IN  /\ fetchPhase' = r.phase
           /\ fetchedKey' = r.fkey
           /\ fetchCount' = r.cnt
    /\ UNCHANGED <<store, nextId, submissions, addFut, verAdd, delFut, delInFlight,
                   delInput, delValue, verDel, scen, fails>>
    /\ UNCHANGED home

\* ---------------------------------------------------------------- specification
Next ==
    \/ \E t \in Titles : DispatchAdd(t)
    \/ \E i \in 1..MaxOps, ok \in BOOLEAN : ServerAdd(i, ok)
    \/ \E i \in 1..MaxOps : SettleAdd(i)
    \/ \E id \in 1..MaxOps : DispatchDel(id)
    \/ \E j \in 1..MaxOps, ok \in BOOLEAN : ServerDel(j, ok)
    \/ \E j \in 1..MaxOps : SettleDel(j)
    \/ \E ok \in BOOLEAN : ServerList(ok)
    \/ FetchComplete

Spec == Init /\ [][Next]_vars

Progress ==
    \/ \E i \in 1..MaxOps, ok \in BOOLEAN : ServerAdd(i, ok)
    \/ \E i \in 1..MaxOps : SettleAdd(i)
    \/ \E j \in 1..MaxOps, ok \in BOOLEAN : ServerDel(j, ok)
    \/ \E j \in 1..MaxOps : SettleDel(j)
    \/ \E ok \in BOOLEAN : ServerList(ok)
    \/ FetchComplete

\* every request is answered and every woken task runs
FairSpec == Spec /\ WF_vars(Progress)

\* ------------------------------------------------------------------ HomePage
\* the counter signal is an i32
IntMax == 2147483647
IntMin == (-IntMax) - 1

\* lengths of the runs of clicks on "+" that are taken as one step
Runs == {1, IntMax}

\* the counter is followed while it is within MaxValue of zero or of either
\* end of the i32 range
MaxValue == 30
Followed(v) ==
    \/ (v >= -MaxValue /\ v <= MaxValue)
    \/ v >= IntMax - MaxValue
    \/ v <= IntMin + MaxValue

\* everything outside HomePage
todoApp == <<store, nextId, submissions, addFut, verAdd, delFut, delInFlight,
             delInput, delValue, verDel, todos, fetchPhase, fetchResult,
             fetchedKey, fetchCount, scen, fails>>

\* class:invisible of the "-" button
Invisible(v) == v < 1

\* *value += 1, n times over: past IntMax a build without overflow checks
\* wraps around, a build with overflow checks panics in the click that would
\* overflow and leaves the signal at IntMax
Plus(v, n, wraps) ==
    IF v <= IntMax - n THEN v + n
    ELSE IF wraps THEN (v - IntMax - 1) + (n - IntMax - 1)
    ELSE IntMax

\* *value -= 1
Minus(v, wraps) ==
    IF v > IntMin THEN v - 1
    ELSE IF wraps THEN IntMax
    ELSE IntMin

\* a run of n clicks on "+"
Inc(n, wraps) ==
    /\ value' = Plus(value, n, wraps)
    /\ Followed(value')
    /\ UNCHANGED hiddenClick
    /\ UNCHANGED todoApp

\* a click on "-"; the handler itself does not look at the value
Dec(wraps) ==
    /\ value' = Minus(value, wraps)
    /\ Followed(value')
    /\ hiddenClick' = (hiddenClick \/ Invisible(value))
    /\ UNCHANGED todoApp

InitHome == Init

NextHome ==
    \/ \E n \in Runs, wraps \in BOOLEAN : Inc(n, wraps)
    \/ \E wraps \in BOOLEAN : Dec(wraps)

SpecHome == InitHome /\ [][NextHome]_vars

\* ---------------------------------------------------------------- properties
\* the number of distinct values the source tuple has taken so far: every
\* change of a version counter produces a value not seen before
KeyValues == 1 + verAdd + verDel

\* the submissions that have a placeholder row in the overlay
OverlaySubs == {Overlay[k].sub : k \in 1..Len(Overlay)}

\* submission i is displayed twice: its inserted record is a row of the list
\* and its placeholder is in the overlay
Duplicate(i) ==
    /\ addFut[i].rid # NoId
    /\ ExistingTodos.shown = "list"
    /\ addFut[i].rid \in Ids(ExistingTodos.rows)
    /\ i \in OverlaySubs

\* a step that changes what is rendered
Rerender == Overlay' # Overlay \/ ExistingTodos' # ExistingTodos

\* the step at which the Resource's task receives a failed get_todos reply
FetchFails ==
    fetchPhase = "replied" /\ fetchResult.kind = "err" /\ fetchPhase' # "replied"

\* the step at which the Resource's task receives any get_todos reply
FetchSettles == fetchPhase = "replied" /\ fetchPhase' # "replied"

SnapshotShown == ExistingTodos.shown \in {"list", "empty"}

LastAdd == Len(addFut)
LastDel == Len(delFut)

\* C1: for the create dispatcher and the delete dispatcher alike, the version
\* counter equals the number of that dispatcher's dispatches that have settled
\* (so it never decreases and each settlement raises it by exactly 1).
C1_VersionCountsSettlements ==
    /\ verAdd = AddSettled
    /\ verDel = DelSettled

\* C2: in every quiescent state whose last fetch succeeded, the snapshot held
\* by the Resource equals the table's current contents.
C2_Resynchronized ==
    (Quiescent /\ todos.kind = "ok") => todos.list = store

\* C4 as stated: one fetch per distinct value of the dependency key; whenever
\* the Resource is idle it has issued as many fetches as the key has had values.
C4_OneFetchPerKeyValue ==
    fetchPhase = "idle" => fetchCount = KeyValues

\* C4 as amended: a fetch is issued only for a key different from the key of
\* the previously issued fetch, at most one fetch is issued per key value, and
\* whenever no fetch is outstanding the last fetch was issued for the current
\* key; changes of the key during a fetch are answered by one fetch after it.
C4_FetchOnKeyChange ==
    /\ [](fetchCount <= KeyValues)
    /\ [](fetchPhase = "idle" => fetchedKey = Key)
    /\ [][fetchCount' # fetchCount =>
            /\ fetchCount' = fetchCount + 1
            /\ Key' # fetchedKey
            /\ fetchedKey' = Key'
            /\ fetchPhase \in {"idle", "replied"}
            /\ fetchPhase' = "sent"]_vars

\* two changes of the key during one fetch were answered by a single fetch
C4_Witness ==
    /\ fetchPhase = "idle"
    /\ fetchCount = 2
    /\ KeyValues = 3

\* C5: the overlay holds exactly one placeholder for each submission whose
\* pending flag is true and none for any other, and each placeholder carries
\* the title that submission was dispatched with.
C5_OverlayIsPending ==
    /\ Len(Overlay) = Cardinality({i \in 1..Len(submissions) : submissions[i].pending})
    /\ \A i \in 1..Len(submissions) :
         LET rows == {k \in 1..Len(Overlay) : Overlay[k].sub = i}
         IN  IF submissions[i].pending
             THEN /\ Cardinality(rows) = 1
                  /\ \A k \in rows : Overlay[k].title = addFut[i].title
             ELSE rows = {}

\* one submission has settled, another with a different title is still pending
C5_Witness ==
    /\ Len(submissions) = 2
    /\ ~submissions[1].pending
    /\ submissions[2].pending
    /\ addFut[1].title # addFut[2].title
    /\ Len(Overlay) = 1

\* C6 as stated: once the create dispatcher's version has advanced past the
\* value it had when a submission was dispatched, that submission has no
\* placeholder in the overlay.
C6_GoneOnceVersionAdvanced ==
    \A i \in 1..Len(addFut) : verAdd > addFut[i].dver => i \notin OverlaySubs

\* C6 as amended: a submission leaves the overlay exactly when its own request
\* settles, the step that raises the version past its dispatch-time value; a
\* submission still in flight keeps its placeholder whatever the version is.
C6_GoneOnceSettled ==
    \A i \in 1..Len(addFut) :
        IF addFut[i].phase = "settled"
        THEN verAdd > addFut[i].dver /\ i \notin OverlaySubs
        ELSE i \in OverlaySubs

\* another submission's settlement advanced the version past the dispatch-time
\* value of a submission that is still in flight, and both cases are present
C6_Witness ==
    \E i, k \in 1..Len(addFut) :
        /\ addFut[i].phase = "settled" /\ i \notin OverlaySubs
        /\ addFut[k].phase # "settled" /\ verAdd > addFut[k].dver
        /\ k \in OverlaySubs

\* C7: an item displayed both as a row of the list and as a placeholder of the
\* overlay is no longer displayed twice after the next re-render.
C7_NoLastingDuplicate ==
    [][\A i \in 1..Len(addFut) : (Duplicate(i) /\ Rerender) => ~Duplicate(i)']_vars

\* C8 as stated: when a fetch fails the previously displayed snapshot stays
\* displayed.
C8_SnapshotRetainedOnFailure ==
    [][(FetchFails /\ SnapshotShown) =>
          (SnapshotShown' /\ ExistingTodos'.rows = ExistingTodos.rows)]_vars

\* C8 as amended: when a fetch fails the failure becomes the Resource's value
\* and the error state is displayed in place of the list; it stays until a
\* later get_todos reply arrives, so it is never silently dropped.
C8_FailureReplacesSnapshot ==
    /\ [][FetchFails => (todos' = ErrValue /\ ExistingTodos'.shown = "error")]_vars
    /\ [][(todos.kind = "err" /\ ~FetchSettles) => todos' = todos]_vars
    /\ [](todos.kind = "err" => (ExistingTodos.shown = "error" /\ ExistingTodos.rows = <<>>))

\* a refetch has failed after a snapshot with a row had been displayed
C8_Witness ==
    /\ todos.kind = "err"
    /\ fetchCount >= 2
    /\ store # <<>>
    /\ fetchPhase = "idle"

AddRejected(i) ==
    /\ addFut[i].phase = "sent"
    /\ addFut'[i].phase = "replied"
    /\ addFut'[i].result = "err"

\* the step at which the failed reply of create i reaches the client
AddFailSettles(i) ==
    /\ addFut[i].phase = "replied"
    /\ addFut[i].result = "err"
    /\ addFut'[i].phase = "settled"

C12_WrittenOnlyBySuccessfulFetch ==
    [][(todos.kind = "ok" /\ todos' # todos) =>
          (FetchSettles /\ fetchResult.kind = "ok")]_vars

\* C12 as amended: the Resource's value changes only at the step where a
\* get_todos reply arrives, and becomes that reply, list or failure; every
\* other step (dispatch, server execution, settlement, issuing a fetch) leaves
\* it unchanged, so the previous snapshot stays while a fetch is outstanding
\* and the row of a delete in flight stays until a reply replaces the snapshot.
C12_SingleWriter ==
    /\ [][todos' # todos => (FetchSettles /\ todos' = fetchResult)]_vars
    /\ [][fetchPhase # "replied" => todos' = todos]_vars
    /\ [][\A j \in 1..Len(delFut) :
            (/\ delFut[j].id \in Ids(ExistingTodos.rows)
             /\ ~FetchSettles) => delFut[j].id \in Ids(ExistingTodos'.rows)]_vars

\* a delete has removed its row from the table and settled, the refetch is
\* outstanding and the row is still displayed
C12_Witness ==
    \E j \in 1..Len(delFut) :
        /\ delFut[j].phase = "settled"
        /\ delFut[j].result = "ok"
        /\ fetchPhase = "sent"
        /\ delFut[j].id \in Ids(ExistingTodos.rows)
        /\ delFut[j].id \notin Ids(store)

\* the step at which the failed reply of delete j reaches the client
DelFailSettles(j) ==
    /\ delFut[j].phase = "replied"
    /\ delFut[j].result = "err"
    /\ delFut'[j].phase = "settled"

\* C13: when the failed reply of a create or delete arrives, the failure is
\* recorded as the outcome of that request's dispatcher handle, and the
\* Resource's value is as before.
C13_FailureCaptured ==
    [][/\ \A i \in 1..Len(addFut) : AddFailSettles(i) =>
            (submissions'[i].value = "err" /\ todos' = todos)
       /\ \A j \in 1..Len(delFut) : DelFailSettles(j) =>
            (delValue' = "err" /\ todos' = todos)]_vars

\* the step at which delete_todo runs on the server for delete j
DelExecutes(j) ==
    /\ delFut[j].phase = "sent"
    /\ delFut'[j].phase = "replied"

\* C14 as stated: a delete whose identifier references no row of the table
\* gets a failure outcome and leaves the table unchanged.
C14_MissingTargetFails ==
    [][\A j \in 1..Len(delFut) :
          (DelExecutes(j) /\ delFut[j].id \notin Ids(store)) =>
              (delFut'[j].result = "err" /\ store' = store)]_vars

\* C14 as amended: a delete whose identifier references no row of the table
\* leaves the table unchanged and gets a success outcome unless the database
\* call itself fails; a delete whose row exists removes exactly that row.
C14_MissingTargetSucceeds ==
    [][\A j \in 1..Len(delFut) : DelExecutes(j) =>
          /\ (fails' = fails) = (delFut'[j].result = "ok")
          /\ delFut[j].id \notin Ids(store) => store' = store
          /\ delFut'[j].result = "ok" =>
                 /\ delFut[j].id \notin Ids(store')
                 /\ \A k \in 1..Len(store) :
                        store[k].id # delFut[j].id =>
                            \E m \in 1..Len(store') : store'[m] = store[k]
                 /\ Len(store') = Len(store) -
                        Cardinality({k \in 1..Len(store) : store[k].id = delFut[j].id})]_vars

\* the same row was deleted twice and both deletes succeeded and settled
C14_Witness ==
    \E j, k \in 1..Len(delFut) :
        /\ j # k
        /\ delFut[j].id = delFut[k].id
        /\ delFut[j].phase = "settled" /\ delFut[j].result = "ok"
        /\ delFut[k].phase = "settled" /\ delFut[k].result = "ok"

\* delete j is in flight before and after the step
DelStaysInFlight(j) == delFut[j].phase # "settled" /\ delFut'[j].phase # "settled"

\* C15: dispatching or settling one submission leaves the pending flag, the
\* echoed input and the outcome of every other submission of the same
\* dispatcher unchanged: a create submission changes only in its own steps,
\* and what the delete dispatcher echoes and reports for a delete that stays
\* in flight does not change.
C15_Independent ==
    [][/\ \A i \in 1..Len(submissions) :
            ((addFut'[i].phase = "settled") = (addFut[i].phase = "settled")) =>
                submissions'[i] = submissions[i]
       /\ \A j \in 1..Len(delFut) :
            DelStaysInFlight(j) =>
                /\ (delInFlight' > 0) = (delInFlight > 0)
                /\ delInput' = delInput
                /\ delValue' = delValue]_vars

\* the step at which get_todos runs on the server
ListExecutes == fetchPhase = "sent" /\ fetchPhase' = "replied"

\* every row of the list was inserted by a successful create, with that
\* create's title, and the rows are in table order without repetition
RowsOfTable(list) ==
    /\ \A k \in 1..Len(list) :
         \E i \in 1..Len(addFut) :
             /\ addFut[i].result = "ok"
             /\ list[k] = Todo(addFut[i].rid, addFut[i].title)
    /\ \A k, m \in 1..Len(list) : k < m => list[k].id < list[m].id

\* C16: a list held by the Resource is the whole result of one successful
\* get_todos call, which is the table's complete contents at the instant of
\* the call: the reply is the table as it is when the call runs, it is not
\* changed while in flight, the Resource's value becomes a list only by
\* taking a reply whole, and no other step touches it.
C16_WholeSnapshot ==
    /\ [][ListExecutes =>
            \/ fetchResult' = ErrValue
            \/ (fetchResult'.kind = "ok" /\ fetchResult'.list = store)]_vars
    /\ [][(fetchPhase = "replied" /\ ~FetchSettles) => fetchResult' = fetchResult]_vars
    /\ [][FetchSettles => todos' = fetchResult]_vars
    /\ [][~FetchSettles => todos' = todos]_vars
    /\ [](todos.kind = "ok" => RowsOfTable(todos.list))
    /\ [](todos.kind # "ok" => todos.list = <<>>)

\* after several fetches the Resource holds the table as it was at an earlier
\* instant: one row, while the table has two by now
C16_Witness ==
    /\ todos.kind = "ok"
    /\ Len(todos.list) = 1
    /\ Len(store) = 2
    /\ fetchCount >= 2

\* the step at which add_todo inserts its row and returns Ok
AddSucceeds(i) ==
    /\ addFut[i].phase = "sent"
    /\ addFut'[i].phase = "replied"
    /\ addFut'[i].result = "ok"

\* C17: a successful add_todo(title) appends exactly one row with the given
\* title, completed = false and an identifier no row present carries, and leaves
\* every existing row as it was; after any inserts and deletes no two rows of
\* the table share an identifier.
C17_InsertOne ==
    /\ [][\A i \in 1..Len(addFut) : AddSucceeds(i) =>
            /\ Len(store') = Len(store) + 1
            /\ SubSeq(store', 1, Len(store)) = store
            /\ store'[Len(store')].title = addFut[i].title
            /\ store'[Len(store')].completed = FALSE
            /\ store'[Len(store')].id \notin Ids(store)
            /\ store'[Len(store')].id = addFut'[i].rid]_vars
    /\ [](Cardinality(Ids(store)) = Len(store))

\* two rows were inserted with the same title, the first was deleted, and the
\* second is still there under its own identifier
C17_Witness ==
    /\ Len(addFut) = 2
    /\ addFut[1].result = "ok" /\ addFut[2].result = "ok"
    /\ addFut[1].title = addFut[2].title
    /\ addFut[1].rid # addFut[2].rid
    /\ store = <<Todo(addFut[2].rid, addFut[2].title)>>

\* C18: the counter starts at 0, "+" adds 1, "-" subtracts 1, and "-" is
\* hidden whenever the value is below 1; so as long as "-" has only been clicked
\* while visible, the counter value is never negative.
C18_NeverNegative == ~hiddenClick => value >= 0
====
